---- MODULE Spec2Model ----
(***************************************************************************)
(* Books Log API (src/books_api.py): a FastAPI service over one SQLite     *)
(* table `books`, whose backing file is pushed to Google Drive after every *)
(* mutation.                                                               *)
(*                                                                         *)
(* Two specifications are given over the same state:                       *)
(*   Spec      the record endpoints, each request handled on its own, on   *)
(*             any table the service can have downloaded at startup;       *)
(*   SpecAll   every endpoint, each request handled on its own, from a     *)
(*             fresh (empty) table;                                        *)
(*   SpecConc  the mutating handlers run in worker threads and interleave  *)
(*             at the granularity of their SQL statements and commits.     *)
(***************************************************************************)
EXTENDS Integers, Sequences, FiniteSets, TLC

(* ------------------------------ bounds -------------------------------- *)
\* largest record id the model lets the table hold
MaxId == 2
\* longest payload of POST /save_all
MaxPayload == 2

(* --------------------------- request inputs --------------------------- *)
\* Optional[str]: None, or a string as the sequence of its characters
None == [present |-> FALSE, v |-> << >>]

Some(v) == [present |-> TRUE, v |-> v]

\* BookIn (title, author and the four optional fields with their "" default)
BookIn(t) ==
    [title |-> t, author |-> "author", status |-> "", rating |-> "",
     notes |-> "", file_path |-> ""]

\* the titles request bodies carry
Titles == { "Dune", "Emma" }

BookIns == { BookIn(t) : t \in Titles }

\* stands where no body is read or returned
NoBody == BookIn("Dune")

\* BookOut: a BookIn plus the caller's id
BookOuts == { [id |-> i, b |-> bk] : i \in {1}, bk \in BookIns }

RECURSIVE SeqsUpTo(_, _)
SeqsUpTo(S, n) ==
    IF n = 0 THEN { <<>> }
    ELSE LET shorter == SeqsUpTo(S, n - 1)
         IN  shorter \cup { Append(q, x) : q \in { r \in shorter : Len(r) = n - 1 }, x \in S }

Payloads == SeqsUpTo(BookOuts, MaxPayload)

\* ids a path parameter {book_id} can take: every storable id and one beyond
BookIds == 1..(MaxId + 1)

\* BOOKS_API_KEY, as a sequence of characters
API_KEY == << "k" >>

\* values of the X-API-Key header: absent, the key, the key padded with blanks,
\* a wrong key, the empty string
Headers ==
    { None, Some(<< "k" >>), Some(<< " ", "k", " " >>), Some(<< "x" >>), Some(<< >>) }

Filenames == { "book.epub" }

(* ------------------------------ str.strip ----------------------------- *)
IsSpace(c) == c \in { " ", "\t", "\n" }

RECURSIVE LStrip(_)
LStrip(s) ==
    IF s # << >> /\ IsSpace(Head(s)) THEN LStrip(Tail(s)) ELSE s

RECURSIVE RStrip(_)
RStrip(s) ==
    IF s # << >> /\ IsSpace(s[Len(s)]) THEN RStrip(SubSeq(s, 1, Len(s) - 1)) ELSE s

Strip(s) == RStrip(LStrip(s))

\* check_key: 0 when the key is accepted, else the status of the HTTPException
check_key(x_api_key) ==
    IF x_api_key = None THEN 401
    ELSE IF Strip(x_api_key.v) # Strip(API_KEY) THEN 401
    ELSE 0

(* ------------------------- the table `books` -------------------------- *)
\* A table is the sequence of its rows in rowid order (id INTEGER PRIMARY
\* KEY is the rowid); a row is [id, b] with b the six text columns.
Row(i, bk) == [id |-> i, b |-> bk]

IdsOf(t) == { t[i].id : i \in DOMAIN t }

\* (mutant) the id column declared without PRIMARY KEY
PrimaryKeyAllows_Off(t, id) == TRUE

\* the PRIMARY KEY constraint of CREATE TABLE books: may a row with this id go in?
PrimaryKeyAllows(t, id) == \A i \in DOMAIN t : t[i].id # id

\* position of a new row in rowid order
RowsBefore(t, id) == Cardinality({ i \in DOMAIN t : t[i].id <= id })

\* the outcome of a statement: the table it leaves, or the exception it raised
Done(t) == [ok |-> TRUE, t |-> t, exc |-> ""]

Raised(t, exc) == [ok |-> FALSE, t |-> t, exc |-> exc]

\* INSERT INTO books (id, ...) VALUES (...): the new table, or an IntegrityError
Insert(t, id, bk) ==
    IF ~PrimaryKeyAllows(t, id) THEN Raised(t, "IntegrityError")
    ELSE LET k == RowsBefore(t, id)
         IN  Done(SubSeq(t, 1, k) \o << Row(id, bk) >> \o SubSeq(t, k + 1, Len(t)))

\* ... ORDER BY id (insertion sort on the id column)
RECURSIVE OrderById(_)
OrderById(t) ==
    IF t = << >> THEN << >>
    ELSE LET rest == OrderById(Tail(t))
             k    == Cardinality({ i \in DOMAIN rest : rest[i].id < Head(t).id })
         IN  SubSeq(rest, 1, k) \o << Head(t) >> \o SubSeq(rest, k + 1, Len(rest))

\* SELECT MAX(id) FROM books: the one row fetched, << NULL >> on an empty table
NULL == 0

RECURSIVE MaxOf(_)
MaxOf(S) ==
    LET x == CHOOSE y \in S : TRUE
    IN  IF S = { x } THEN x
        ELSE LET m == MaxOf(S \ { x }) IN IF x > m THEN x ELSE m

SelectMaxId(t) == IF t = << >> THEN << NULL >> ELSE << MaxOf(IdsOf(t)) >>

\* (mutant) the next id taken from the number of rows
get_next_id_local_Count(t) == Len(t) + 1

get_next_id_local(t) ==
    LET row   == SelectMaxId(t)
        maxid == IF row # << >> /\ row[1] # NULL THEN row[1] ELSE 0
    IN  maxid + 1

\* DELETE FROM books WHERE id=?
DeleteWhere(t, id) == SelectSeq(t, LAMBDA r : r.id # id)

\* (mutant) the WHERE clause left out
SelectById_Any(t, id) == t

\* SELECT id FROM books WHERE id=?  ... fetchone() is None
SelectById(t, id) == SelectSeq(t, LAMBDA r : r.id = id)

\* UPDATE books SET title=?, ... WHERE id=?
UpdateWhere(t, id, bk) ==
    [i \in DOMAIN t |-> IF t[i].id = id THEN Row(id, bk) ELSE t[i]]

\* (mutant) the rows read back in descending id order
SelectFieldsOrdered_Desc(t) ==
    LET o == OrderById(t) IN [i \in DOMAIN o |-> o[Len(o) + 1 - i].b]

\* SELECT title, author, status, rating, notes, file_path FROM books ORDER BY id
SelectFieldsOrdered(t) ==
    LET o == OrderById(t) IN [i \in DOMAIN o |-> o[i].b]

\* (mutant) the loop starts at the second of the rows read
RECURSIVE Reinsert_SkipFirst(_, _, _)
Reinsert_SkipFirst(t, rows, k) ==
    IF k + 1 > Len(rows) THEN [ok |-> TRUE, t |-> t, exc |-> ""]
    ELSE LET r == Insert(t, k, rows[k + 1])
         IN  IF ~r.ok THEN r ELSE Reinsert_SkipFirst(r.t, rows, k + 1)

\* (mutant) the numbering starts at 0
RECURSIVE Reinsert_FromZero(_, _, _)
Reinsert_FromZero(t, rows, k) ==
    IF k > Len(rows) THEN [ok |-> TRUE, t |-> t, exc |-> ""]
    ELSE LET r == Insert(t, k - 1, rows[k])
         IN  IF ~r.ok THEN r ELSE Reinsert_FromZero(r.t, rows, k + 1)

\* the loop `for r in rows: INSERT ... (new_id, r...); new_id += 1` run on the
\* working table t from position k of rows
RECURSIVE Reinsert(_, _, _)
Reinsert(t, rows, k) ==
    IF k > Len(rows) THEN Done(t)
    ELSE LET r == Insert(t, k, rows[k])
         IN  IF ~r.ok THEN r ELSE Reinsert(r.t, rows, k + 1)

(* --------------------------------- state ------------------------------- *)
VARIABLES
    store,      \* committed content of the table books in DB_FILE
    remote,     \* content of the Drive file GOOGLE_DRIVE_FILE_ID, or NoFile
    tmp,        \* the files that exist under /tmp
    csv,        \* does BACKUP_CSV exist locally
    last,       \* the request handled last and its response
    th,         \* SpecConc: each worker thread's request, position and locals
    lock        \* SpecConc: the thread whose connection holds the write lock

vars == << store, remote, tmp, csv, last, th, lock >>

\* the state of the worker threads, which Spec and SpecAll leave alone
conc == << th, lock >>

NoFile == [exists |-> FALSE, t |-> << >>]

File(t) == [exists |-> TRUE, t |-> t]

\* every table the PRIMARY KEY admits with ids up to MaxId, in rowid order
Rows == { Row(i, bk) : i \in 1..MaxId, bk \in BookIns }

Tables ==
    { t \in SeqsUpTo(Rows, MaxId) :
        \A i \in DOMAIN t : \A j \in DOMAIN t : i < j => t[i].id < t[j].id }

(* ------------------------ upload_db_to_drive --------------------------- *)
\* What Drive answers to the push:
\*   updated        files().update succeeded
\*   created        files().update raised HttpError, files().create succeeded
\*   create_failed  files().update raised HttpError, files().create raised
\*   error          files().update raised an exception that is no HttpError
PushOutcomes == { "updated", "created", "create_failed", "error" }

\* files().update(fileId=GOOGLE_DRIVE_FILE_ID) can succeed only on a file that exists
PushPossible(o, rem) == o = "updated" => rem.exists

\* does upload_db_to_drive raise
PushRaises(o) == o \in { "create_failed", "error" }

\* (mutant) the fallback create overwrites the known file as well
upload_db_to_drive_CreateOverwrites(o, t, rem) ==
    IF o \in { "updated", "created" } THEN [exists |-> TRUE, t |-> t] ELSE rem

\* the Drive file GOOGLE_DRIVE_FILE_ID after upload_db_to_drive of the local table t:
\* update overwrites it, create makes another file and leaves it as it was
upload_db_to_drive(o, t, rem) == IF o = "updated" THEN File(t) ELSE rem

(* ------------------------------ responses ------------------------------ *)
\* id is the id the response carries (POST, PUT) or the path parameter (DELETE),
\* push is what Drive answered to the handler's upload_db_to_drive, if it made one,
\* b the fields a BookOut response carries
Resp(op, status, detail, id, push) ==
    [op |-> op, status |-> status, detail |-> detail, id |-> id, push |-> push,
     b |-> NoBody]

\* BookOut(id=..., **b.dict())
RespBookOut(op, id, push, b) ==
    [op |-> op, status |-> 200, detail |-> "", id |-> id, push |-> push, b |-> b]

Unauthorized(op) == Resp(op, 401, "unauthorized", 0, "none")

\* an exception no handler catches: FastAPI answers 500
ServerError(op) == Resp(op, 500, "Internal Server Error", 0, "none")

\* (mutant) the exception of the upload reaches the caller
AfterUpload_Propagates(op, o, resp) ==
    IF o \in { "create_failed", "error" }
    THEN [op |-> op, status |-> 500, detail |-> "Internal Server Error", id |-> 0,
          push |-> o, b |-> resp.b]
    ELSE resp

\* try: upload_db_to_drive() / except Exception as e: print(...): whatever the
\* upload raised, the handler goes on to return the response it had prepared
AfterUpload(op, o, resp) == resp

(* ---------------------------- worker threads --------------------------- *)
\* FastAPI runs the `def` handlers in a thread pool; two requests are in flight
Threads == { "w1", "w2" }

Free == "free"

Idle ==
    [pc |-> "idle", op |-> "", id |-> 0, b |-> NoBody, payload |-> << >>,
     new_id |-> 0, rows |-> << >>, txn |-> << >>, status |-> 0, exc |-> ""]

(* ---------------------------- initial state ---------------------------- *)
\* startup_event: the table is the one downloaded from Drive, or Drive has no such
\* file (404) and an empty table is created.
Init ==
    /\ store \in Tables
    /\ remote \in { File(store), NoFile }
    /\ remote = NoFile => store = << >>
    /\ tmp = { }
    /\ csv = FALSE
    /\ last = Resp("startup", 0, "", 0, "none")
    /\ th = [p \in Threads |-> Idle]
    /\ lock = Free

(* ------------------- handlers, each run on its own --------------------- *)
\* GET /books
get_books(key) ==
    /\ last' = IF check_key(key) # 0 THEN Unauthorized("get_books")
               ELSE Resp("get_books", 200, "", 0, "none")
    /\ UNCHANGED << store, remote, tmp, csv, conc >>

\* POST /books
add_book(key, b, o) ==
    IF check_key(key) # 0
    THEN /\ last' = Unauthorized("add_book")
         /\ UNCHANGED << store, remote, tmp, csv, conc >>
    ELSE LET new_id == get_next_id_local(store)
             r      == Insert(store, new_id, b)
         IN  /\ new_id <= MaxId
             /\ IF ~r.ok
                THEN /\ last' = ServerError("add_book")
                     /\ UNCHANGED << store, remote >>
                ELSE /\ PushPossible(o, remote)
                     /\ store' = r.t
                     /\ remote' = upload_db_to_drive(o, r.t, remote)
                     /\ last' = AfterUpload("add_book", o, RespBookOut("add_book", new_id, o, b))
             /\ UNCHANGED << tmp, csv, conc >>

\* PUT /books/{book_id}
update_book(key, book_id, b, o) ==
    IF check_key(key) # 0
    THEN /\ last' = Unauthorized("update_book")
         /\ UNCHANGED << store, remote, tmp, csv, conc >>
    ELSE IF SelectById(store, book_id) = << >>
    THEN /\ last' = Resp("update_book", 404, "Book not found", book_id, "none")
         /\ UNCHANGED << store, remote, tmp, csv, conc >>
    ELSE LET t == UpdateWhere(store, book_id, b)
         IN  /\ PushPossible(o, remote)
             /\ store' = t
             /\ remote' = upload_db_to_drive(o, t, remote)
             /\ last' = AfterUpload("update_book", o,
                                     RespBookOut("update_book", book_id, o, b))
             /\ UNCHANGED << tmp, csv, conc >>

\* DELETE /books/{book_id}: delete and commit, read the rest, clear and commit,
\* reinsert from 1 and commit. Run alone, the reinsertion goes into the empty table.
delete_book(key, book_id, o) ==
    IF check_key(key) # 0
    THEN /\ last' = Unauthorized("delete_book")
         /\ UNCHANGED << store, remote, tmp, csv, conc >>
    ELSE LET t1   == DeleteWhere(store, book_id)
             rows == SelectFieldsOrdered(t1)
             t2   == << >>
             r    == Reinsert(t2, rows, 1)
         IN  /\ IF ~r.ok
                THEN \* the clear is committed, the reinsertion is rolled back
                     /\ store' = t2
                     /\ last' = ServerError("delete_book")
                     /\ UNCHANGED remote
                ELSE /\ PushPossible(o, remote)
                     /\ store' = r.t
                     /\ remote' = upload_db_to_drive(o, r.t, remote)
                     /\ last' = AfterUpload("delete_book", o,
                                Resp("delete_book", 200, "deleted_and_renumbered",
                                     book_id, o))
             /\ UNCHANGED << tmp, csv, conc >>

\* item.get(key, default) on a payload item. FastAPI hands save_all a list of
\* BookOut objects, and a pydantic model has the attributes below: `get` is not
\* one of them, so the lookup raises AttributeError.
BaseModelAttrs ==
    { "id", "title", "author", "status", "rating", "notes", "file_path",
      "dict", "json", "copy" }

ItemGet(item, key, default) ==
    IF "get" \in BaseModelAttrs
    THEN [ok |-> TRUE, v |-> item.b[key]]
    ELSE [ok |-> FALSE, v |-> default]

\* the loop `for item in payload: INSERT ... (new_id, item.get(...), ...); new_id += 1`
\* of save_all on the working table t, from position k of payload
RECURSIVE SaveAllInserts(_, _, _)
SaveAllInserts(t, payload, k) ==
    IF k > Len(payload) THEN Done(t)
    ELSE LET item == payload[k]
             g == [f \in { "title", "author", "status", "rating", "notes", "file_path" }
                     |-> ItemGet(item, f, "")]
         IN  IF \E f \in DOMAIN g : ~g[f].ok THEN Raised(t, "AttributeError")
             ELSE LET r == Insert(t, k, [f \in DOMAIN g |-> g[f].v])
                  IN  IF ~r.ok THEN r ELSE SaveAllInserts(r.t, payload, k + 1)

\* POST /save_all: DELETE FROM books and the inserts form one transaction; an
\* exception leaves the connection without commit, which rolls it back.
save_all(key, payload, o) ==
    IF check_key(key) # 0
    THEN /\ last' = Unauthorized("save_all")
         /\ UNCHANGED << store, remote, tmp, csv, conc >>
    ELSE LET r == SaveAllInserts(<< >>, payload, 1)
         IN  /\ IF ~r.ok
                THEN /\ last' = Resp("save_all", 500, "save_all failed", 0, "none")
                     /\ UNCHANGED << store, remote >>
                ELSE /\ PushPossible(o, remote)
                     /\ store' = r.t
                     /\ remote' = upload_db_to_drive(o, r.t, remote)
                     /\ last' = AfterUpload("save_all", o, Resp("save_all", 200, "saved", 0, o))
             /\ UNCHANGED << tmp, csv, conc >>

\* a request the key check turns away reads neither its body nor Drive
Rejected(key) == check_key(key) # 0

Next ==
    \/ \E key \in Headers : get_books(key)
    \/ \E key \in Headers :
          IF Rejected(key) THEN add_book(key, NoBody, "updated")
          ELSE \E b \in BookIns, o \in PushOutcomes : add_book(key, b, o)
    \/ \E key \in Headers :
          IF Rejected(key) THEN update_book(key, 1, NoBody, "updated")
          ELSE \E id \in BookIds, b \in BookIns, o \in PushOutcomes :
                  update_book(key, id, b, o)
    \/ \E key \in Headers :
          IF Rejected(key) THEN delete_book(key, 1, "updated")
          ELSE \E id \in BookIds, o \in PushOutcomes : delete_book(key, id, o)
    \/ \E key \in Headers :
          IF Rejected(key) THEN save_all(key, << >>, "updated")
          ELSE \E payload \in Payloads, o \in PushOutcomes : save_all(key, payload, o)

Spec == Init /\ [][Next]_vars

(* --------------------- the endpoints beside the table ------------------ *)
\* temp_path = os.path.join("/tmp", file.filename)
TempPath(filename) == << "/tmp", filename >>

\* How a POST /upload_ebook that passed the key check goes on:
\*   no_folder          EBOOKS_FOLDER_ID is not configured
\*   read_error         reading the upload or opening the temporary file raised
\*   oauth_missing      get_oauth_drive_service raised HTTPException (no credentials, no token)
\*   oauth_error        get_oauth_drive_service raised another exception
\*   unexpected         MediaFileUpload or files().create raised an exception that is no HttpError
\*   create_http_error  files().create raised HttpError
\*   ok                 the file was created (granting the owner access may fail, non-fatal)
EbookOutcomes ==
    { "no_folder", "read_error", "oauth_missing", "oauth_error", "unexpected",
      "create_http_error", "ok" }

\* the exit paths that are past `f.write(contents)`
WritesTemp(oc) == oc \notin { "no_folder", "read_error" }

\* os.remove(temp_path) is reached on the path that returns the links only
RemovesTemp(oc) == oc = "ok"

upload_ebook(key, filename, oc) ==
    IF check_key(key) # 0
    THEN /\ last' = Unauthorized("upload_ebook")
         /\ UNCHANGED << store, remote, tmp, csv, conc >>
    ELSE /\ tmp' = IF ~WritesTemp(oc) THEN tmp
                   ELSE IF RemovesTemp(oc) THEN tmp \ { TempPath(filename) }
                   ELSE tmp \cup { TempPath(filename) }
         /\ last' = IF oc = "ok" THEN Resp("upload_ebook", 200, oc, 0, "none")
                    ELSE Resp("upload_ebook", 500, oc, 0, "none")
         /\ UNCHANGED << store, remote, csv, conc >>

\* How a GET /backup that passed the key check goes on:
\*   db_error     reading the table raised, before BACKUP_CSV is written
\*   no_parents   the Drive file has no parent folder
\*   drive_error  a Drive call raised
\*   updated      a CSV of that name was in the folder and was updated
\*   created      none was there and one was created
BackupOutcomes == { "db_error", "no_parents", "drive_error", "updated", "created" }

backup(key, oc) ==
    IF check_key(key) # 0
    THEN /\ last' = Unauthorized("backup")
         /\ UNCHANGED << store, remote, tmp, csv, conc >>
    ELSE /\ csv' = IF oc = "db_error" THEN csv ELSE TRUE
         /\ last' = IF oc \in { "updated", "created" }
                    THEN Resp("backup", 200, oc, 0, "none")
                    ELSE Resp("backup", 500, "Backup failed", 0, "none")
         /\ UNCHANGED << store, remote, tmp, conc >>

\* How GET /oauth_start and GET /oauth_finish go on:
\*   creds_missing  OAUTH_CREDENTIALS_B64 is not set
\*   error          decoding the credentials, or the token exchange, raised
\*   ok             the answer is built
OAuthOutcomes == { "creds_missing", "error", "ok" }

\* neither handler takes the X-API-Key header: whatever the request carries is not read
oauth_start(key, oc) ==
    /\ last' = IF oc = "ok" THEN Resp("oauth_start", 200, oc, 0, "none")
               ELSE Resp("oauth_start", 500, oc, 0, "none")
    /\ UNCHANGED << store, remote, tmp, csv, conc >>

oauth_finish(key, oc) ==
    /\ last' = IF oc = "ok" THEN Resp("oauth_finish", 200, oc, 0, "none")
               ELSE Resp("oauth_finish", 500, oc, 0, "none")
    /\ UNCHANGED << store, remote, tmp, csv, conc >>

NextAux ==
    \/ \E key \in Headers :
          IF Rejected(key) THEN upload_ebook(key, "book.epub", "ok")
          ELSE \E f \in Filenames, oc \in EbookOutcomes : upload_ebook(key, f, oc)
    \/ \E key \in Headers :
          IF Rejected(key) THEN backup(key, "updated")
          ELSE \E oc \in BackupOutcomes : backup(key, oc)
    \/ \E key \in Headers, oc \in OAuthOutcomes : oauth_start(key, oc)
    \/ \E key \in Headers, oc \in OAuthOutcomes : oauth_finish(key, oc)

\* a fresh deployment: the Drive file holds an empty table, or does not exist
InitFresh == Init /\ store = << >>

NextAll == Next \/ NextAux

SpecAll == InitFresh /\ [][NextAll]_vars

\* the requests on the table and GET /backup, one after the other, on a fresh
\* deployment
NextSeq ==
    \/ Next
    \/ \E key \in Headers :
          IF Rejected(key) THEN backup(key, "updated")
          ELSE \E oc \in BackupOutcomes : backup(key, oc)

SpecSeq == InitFresh /\ [][NextSeq]_vars

(* ------------- the mutating handlers, statement by statement ----------- *)
\* Each thread takes one request. A handler's connection takes the write lock of
\* DB_FILE at its first INSERT, UPDATE or DELETE and gives it up at conn.commit();
\* until then its changes are in txn and the other connections read store. A
\* statement that needs the lock while another connection holds it waits, or
\* gives up with OperationalError (database is locked).
Set(p, r) == th' = [th EXCEPT ![p] = r]

At(p, pcs) == th[p].pc \in pcs

\* the handler has returned or raised: its locals are gone. The record keeps the
\* answer, and of the request what the properties below speak of: the body and id
\* of a POST /books, the id and the rows read by a DELETE.
Returned(r) ==
    [r EXCEPT !.pc = "done", !.txn = << >>, !.payload = << >>,
              !.id = IF r.op = "delete_book" THEN r.id ELSE 0,
              !.b = IF r.op = "add_book" THEN r.b ELSE NoBody]

\* the request enters its handler; check_key is the handler's first statement
Start(p, key, op, id, b, payload) ==
    /\ At(p, { "idle" })
    /\ Set(p, IF check_key(key) # 0
              THEN Returned([th[p] EXCEPT !.op = op, !.status = 401])
              ELSE [th[p] EXCEPT !.op = op, !.id = id, !.b = b, !.payload = payload,
                                 !.pc = CASE op = "add_book" -> "add_next"
                                          [] op = "update_book" -> "upd_select"
                                          [] op = "delete_book" -> "del_delete"
                                          [] op = "save_all" -> "sav_clear"])
    /\ UNCHANGED << store, remote, tmp, csv, last, lock >>

\* add_book: new_id = get_next_id_local()
AddNextId(p) ==
    /\ At(p, { "add_next" })
    /\ get_next_id_local(store) <= MaxId
    /\ Set(p, [th[p] EXCEPT !.new_id = get_next_id_local(store), !.pc = "add_insert"])
    /\ UNCHANGED << store, remote, tmp, csv, last, lock >>

\* add_book: insert_book_local_with_id, the INSERT
AddInsert(p) ==
    /\ At(p, { "add_insert" })
    /\ lock = Free
    /\ LET r == Insert(store, th[p].new_id, th[p].b)
       IN  Set(p, IF r.ok
                  THEN [th[p] EXCEPT !.txn = r.t, !.pc = "add_commit"]
                  ELSE [th[p] EXCEPT !.exc = r.exc, !.status = 500, !.pc = "unwind"])
    /\ lock' = p
    /\ UNCHANGED << store, remote, tmp, csv, last >>

\* update_book: SELECT id FROM books WHERE id=?, and the 404
UpdSelect(p) ==
    /\ At(p, { "upd_select" })
    /\ Set(p, IF SelectById(store, th[p].id) = << >>
              THEN Returned([th[p] EXCEPT !.status = 404])
              ELSE [th[p] EXCEPT !.pc = "upd_update"])
    /\ UNCHANGED << store, remote, tmp, csv, last, lock >>

\* update_book: the UPDATE
UpdUpdate(p) ==
    /\ At(p, { "upd_update" })
    /\ lock = Free
    /\ Set(p, [th[p] EXCEPT !.txn = UpdateWhere(store, th[p].id, th[p].b),
                            !.pc = "upd_commit"])
    /\ lock' = p
    /\ UNCHANGED << store, remote, tmp, csv, last >>

\* delete_book: DELETE FROM books WHERE id=?
DelDelete(p) ==
    /\ At(p, { "del_delete" })
    /\ lock = Free
    /\ Set(p, [th[p] EXCEPT !.txn = DeleteWhere(store, th[p].id), !.pc = "del_commit1"])
    /\ lock' = p
    /\ UNCHANGED << store, remote, tmp, csv, last >>

\* delete_book: rows = SELECT title, ... FROM books ORDER BY id
DelSelect(p) ==
    /\ At(p, { "del_select" })
    /\ Set(p, [th[p] EXCEPT !.rows = SelectFieldsOrdered(store), !.pc = "del_clear"])
    /\ UNCHANGED << store, remote, tmp, csv, last, lock >>

\* delete_book: DELETE FROM books
DelClear(p) ==
    /\ At(p, { "del_clear" })
    /\ lock = Free
    /\ Set(p, [th[p] EXCEPT !.txn = << >>, !.pc = "del_commit2"])
    /\ lock' = p
    /\ UNCHANGED << store, remote, tmp, csv, last >>

\* delete_book: the loop of INSERTs. The first takes the write lock, so the loop
\* runs on the table as committed at its first INSERT; no rows, no statement.
DelReinsert(p) ==
    /\ At(p, { "del_insert" })
    /\ IF th[p].rows = << >>
       THEN /\ Set(p, [th[p] EXCEPT !.pc = "del_push"])
            /\ UNCHANGED lock
       ELSE /\ lock = Free
            /\ LET r == Reinsert(store, th[p].rows, 1)
               IN  Set(p, IF r.ok
                          THEN [th[p] EXCEPT !.txn = r.t, !.pc = "del_commit3"]
                          ELSE [th[p] EXCEPT !.exc = r.exc, !.status = 500,
                                             !.pc = "unwind"])
            /\ lock' = p
    /\ UNCHANGED << store, remote, tmp, csv, last >>

\* (mutant) the DELETE is committed on its own, as delete_book commits its clear
SavClear_Committed(p) ==
    /\ At(p, { "sav_clear" })
    /\ lock = Free
    /\ store' = << >>
    /\ Set(p, [th[p] EXCEPT !.txn = << >>, !.pc = "sav_insert"])
    /\ lock' = p
    /\ UNCHANGED << remote, tmp, csv, last >>

\* save_all: DELETE FROM books
SavClear(p) ==
    /\ At(p, { "sav_clear" })
    /\ lock = Free
    /\ Set(p, [th[p] EXCEPT !.txn = << >>, !.pc = "sav_insert"])
    /\ lock' = p
    /\ UNCHANGED << store, remote, tmp, csv, last >>

\* save_all: the loop of INSERTs, in the transaction of the DELETE
SavInserts(p) ==
    /\ At(p, { "sav_insert" })
    /\ LET r == SaveAllInserts(th[p].txn, th[p].payload, 1)
       IN  Set(p, IF r.ok
                  THEN [th[p] EXCEPT !.txn = r.t, !.payload = << >>, !.pc = "sav_commit"]
                  ELSE [th[p] EXCEPT !.exc = r.exc, !.status = 500, !.payload = << >>,
                                     !.pc = "unwind"])
    /\ UNCHANGED << store, remote, tmp, csv, last, lock >>

\* conn.commit(): the pending changes become the table, the lock is given up
AfterCommit(pc) ==
    CASE pc = "add_commit" -> "add_push"
      [] pc = "upd_commit" -> "upd_push"
      [] pc = "del_commit1" -> "del_select"
      [] pc = "del_commit2" -> "del_insert"
      [] pc = "del_commit3" -> "del_push"
      [] pc = "sav_commit" -> "sav_push"

Commit(p) ==
    /\ At(p, { "add_commit", "upd_commit", "del_commit1", "del_commit2", "del_commit3",
               "sav_commit" })
    /\ lock = p
    /\ store' = th[p].txn
    /\ lock' = Free
    /\ Set(p, [th[p] EXCEPT !.txn = << >>, !.pc = AfterCommit(th[p].pc)])
    /\ UNCHANGED << remote, tmp, csv, last >>

\* the handler's upload_db_to_drive and its return
Push(p, o) ==
    /\ At(p, { "add_push", "upd_push", "del_push", "sav_push" })
    /\ PushPossible(o, remote)
    /\ remote' = upload_db_to_drive(o, store, remote)
    /\ Set(p, Returned([th[p] EXCEPT
                 !.status = AfterUpload(th[p].op, o, Resp(th[p].op, 200, "", 0, o)).status]))
    /\ UNCHANGED << store, tmp, csv, last, lock >>

\* a statement that needs the write lock gives up: sqlite3.OperationalError
Busy(p) ==
    /\ \/ At(p, { "add_insert", "upd_update", "del_delete", "del_clear", "sav_clear" })
       \/ At(p, { "del_insert" }) /\ th[p].rows # << >>
    /\ lock \notin { Free, p }
    /\ Set(p, Returned([th[p] EXCEPT !.exc = "OperationalError", !.status = 500]))
    /\ UNCHANGED << store, remote, tmp, csv, last, lock >>

\* the connection of a handler that raised is never committed nor closed by the
\* handler: it is closed when the handler's frame is released, which rolls back
Finalize(p) ==
    /\ At(p, { "unwind" })
    /\ lock' = IF lock = p THEN Free ELSE lock
    /\ Set(p, Returned(th[p]))
    /\ UNCHANGED << store, remote, tmp, csv, last >>

MutatingOps == { "add_book", "update_book", "delete_book", "save_all" }

NextConc ==
    \/ \E p \in Threads, key \in Headers :
          IF Rejected(key)
          THEN \E op \in MutatingOps : Start(p, key, op, 0, NoBody, << >>)
          ELSE \/ \E b \in BookIns : Start(p, key, "add_book", 0, b, << >>)
               \/ \E id \in BookIds, b \in BookIns : Start(p, key, "update_book", id, b, << >>)
               \/ \E id \in BookIds : Start(p, key, "delete_book", id, NoBody, << >>)
               \/ \E payload \in Payloads : Start(p, key, "save_all", 0, NoBody, payload)
    \/ \E p \in Threads : AddNextId(p)
    \/ \E p \in Threads : AddInsert(p)
    \/ \E p \in Threads : UpdSelect(p)
    \/ \E p \in Threads : UpdUpdate(p)
    \/ \E p \in Threads : DelDelete(p)
    \/ \E p \in Threads : DelSelect(p)
    \/ \E p \in Threads : DelClear(p)
    \/ \E p \in Threads : DelReinsert(p)
    \/ \E p \in Threads : SavClear(p)
    \/ \E p \in Threads : SavInserts(p)
    \/ \E p \in Threads : Commit(p)
    \/ \E p \in Threads, o \in PushOutcomes : Push(p, o)
    \/ \E p \in Threads : Busy(p)
    \/ \E p \in Threads : Finalize(p)

SpecConc == Init /\ [][NextConc]_vars

(* ======================= properties of the endpoints ==================== *)
FieldsOf(t) == { t[i].b : i \in DOMAIN t }

RowsOf(t) == { t[i] : i \in DOMAIN t }

\* the header the claims call absent or wrong
BadKey(key) == key = None \/ Strip(key.v) # API_KEY

\* new holds the rows of old other than the one with this id, their fields as they
\* were, in the order of their old ids, under the ids 1..n
RenumberedFrom(new, old, id) ==
    LET surv    == { i \in DOMAIN old : old[i].id # id }
        rank(i) == Cardinality({ j \in surv : old[j].id <= old[i].id })
    IN  /\ Len(new) = Cardinality(surv)
        /\ \A k \in DOMAIN new : new[k].id = k
        /\ \A i \in surv : rank(i) \in DOMAIN new /\ new[rank(i)].b = old[i].b

\* C1: a DELETE /books/{id} handled on its own answers 200 "deleted_and_renumbered"
\* whether or not the id was there, and leaves the other records, fields unchanged,
\* in their prior order, under the ids 1..n.
C1_DeleteRenumbers ==
    [][(last'.op = "delete_book" /\ last'.status # 401)
        => /\ last'.status = 200
           /\ last'.detail = "deleted_and_renumbered"
           /\ RenumberedFrom(store', store, last'.id)]_vars

\* a delete of id 1 has answered and the table holds a record under id 1 again,
\* next to a second one: survivors were renumbered
C1_Witness ==
    /\ last.op = "delete_book" /\ last.status = 200 /\ last.id = 1
    /\ Len(store) = MaxId - 1
    /\ 1 \in IdsOf(store)

\* C2 (as claimed): POST /save_all with k >= 1 records answers 200 and leaves
\* exactly those k records, under the ids 1..k, in the caller's order.
C2_SaveAllReplaces ==
    [][\A key \in Headers, payload \in Payloads, o \in PushOutcomes :
         (~BadKey(key) /\ Len(payload) >= 1 /\ save_all(key, payload, o))
         => /\ last'.status = 200
            /\ Len(store') = Len(payload)
            /\ \A i \in DOMAIN payload : store'[i] = Row(i, payload[i].b)]_vars

C5_UpdateMissing ==
    [][(last'.op = "update_book" /\ last'.status # 401 /\ last'.id \notin IdsOf(store))
        => /\ last'.status = 404
           /\ store' = store
           /\ remote' = remote
           /\ last'.push = "none"]_vars

C5_Witness ==
    /\ last.op = "update_book" /\ last.status = 404
    /\ store # << >> /\ last.id \notin IdsOf(store)

\* C6: when the push of a mutating request fails (update and create both fail, or
\* another error is raised), the request still answers 200 and the table keeps the
\* mutation.
PushFailed(r) == r.push \in { "create_failed", "error" }

C6_PushFailureSwallowed ==
    [][PushFailed(last')
        => /\ last'.status = 200
           /\ remote' = remote
           /\ CASE last'.op = "add_book" ->
                     /\ Len(store') = Len(store) + 1
                     /\ RowsOf(store') = RowsOf(store) \cup { Row(last'.id, last'.b) }
                [] last'.op = "update_book" ->
                     RowsOf(store') =
                       { r \in RowsOf(store) : r.id # last'.id } \cup { Row(last'.id, last'.b) }
                [] last'.op = "delete_book" -> RenumberedFrom(store', store, last'.id)
                [] last'.op = "save_all" ->
                     \E payload \in Payloads :
                        /\ Len(store') = Len(payload)
                        /\ \A i \in DOMAIN payload : store'[i] = Row(i, payload[i].b)
                [] OTHER -> FALSE]_vars

\* an insert whose push failed has answered 200, and its record is in the table
C6_Witness ==
    /\ last.op = "add_book" /\ PushFailed(last) /\ last.status = 200
    /\ Row(last.id, last.b) \in RowsOf(store)
    /\ remote # File(store)

\* C8 (as claimed): whenever the push completes without raising, the Drive file of
\* the known id equals the local table.
C8_PushedMeansEqual ==
    (last.push \in { "updated", "created" }) => remote = File(store)

\* C8 (amended): when files().update succeeds the Drive file of the known id equals
\* the local table; when the push falls back to create, or raises, that file is
\* left as it was; and the two fall apart only in such a push.
C8_UpdatedMeansEqual ==
    [][/\ last'.push = "updated" => remote' = File(store')
       /\ last'.push \in { "created", "create_failed", "error" } => remote' = remote
       /\ (remote = File(store) /\ remote' # File(store'))
            => last'.push \in { "created", "create_failed", "error" }]_vars

\* a push fell back to create and returned: the request answered 200 and the file
\* of the known id is behind the table
C8_Witness ==
    /\ last.push = "created" /\ last.status = 200
    /\ remote.exists /\ remote # File(store)

(* ------------------------------ SpecAll -------------------------------- *)
\* a request to any endpoint with this header
RequestWith(key) ==
    \/ get_books(key)
    \/ \E b \in BookIns, o \in PushOutcomes : add_book(key, b, o)
    \/ \E id \in BookIds, b \in BookIns, o \in PushOutcomes : update_book(key, id, b, o)
    \/ \E id \in BookIds, o \in PushOutcomes : delete_book(key, id, o)
    \/ \E payload \in Payloads, o \in PushOutcomes : save_all(key, payload, o)
    \/ \E f \in Filenames, oc \in EbookOutcomes : upload_ebook(key, f, oc)
    \/ \E oc \in BackupOutcomes : backup(key, oc)
    \/ \E oc \in OAuthOutcomes : oauth_start(key, oc)
    \/ \E oc \in OAuthOutcomes : oauth_finish(key, oc)

\* C3 (as claimed): on every endpoint a request whose X-API-Key is absent or differs
\* from the secret after trimming gets 401 and changes nothing.
C3_EveryEndpointChecksKey ==
    [][\A key \in Headers :
         (BadKey(key) /\ RequestWith(key))
         => /\ last'.status = 401
            /\ UNCHANGED << store, remote, tmp, csv >>]_vars

\* C7 (as claimed): on every exit path of POST /upload_ebook that wrote the
\* temporary copy, the copy is gone when the request ends.
C7_TempFileRemoved ==
    [][\A key \in Headers, f \in Filenames, oc \in EbookOutcomes :
         (~BadKey(key) /\ WritesTemp(oc) /\ upload_ebook(key, f, oc))
         => TempPath(f) \notin tmp']_vars

(* ------------------------------ SpecConc ------------------------------- *)
NoDuplicateId(t) == \A i \in DOMAIN t : \A j \in DOMAIN t : i # j => t[i].id # t[j].id

\* C9: in every state of interleaved requests, the committed table and every
\* connection's pending table hold each id once; the statement that would have
\* made a duplicate raised, and its request answered 500.
C9_IdsUnique ==
    /\ NoDuplicateId(store)
    /\ \A p \in Threads :
         /\ NoDuplicateId(th[p].txn)
         /\ th[p].exc = "IntegrityError"
              => th[p].status = 500 /\ th[p].pc \in { "unwind", "done" }

\* two POST /books raced for the same id: one answered 200 and its record is in
\* the table, the other's INSERT raised IntegrityError
C9_Witness ==
    \E p \in Threads, q \in Threads :
        /\ th[p].op = "add_book" /\ th[p].pc = "done" /\ th[p].status = 200
        /\ th[q].op = "add_book" /\ th[q].pc = "done" /\ th[q].exc = "IntegrityError"
        /\ th[q].new_id = th[p].new_id
        /\ th[p].new_id \in IdsOf(store)

RowsRead(q) == { th[q].rows[i] : i \in DOMAIN th[q].rows }

\* the record of p's answered POST /books is not in the table, next to q's DELETE
\* of an id that no record had
InsertLost(p, q) ==
    /\ p # q
    /\ th[p].pc = "done" /\ th[p].op = "add_book" /\ th[p].status = 200
    /\ th[q].pc = "done" /\ th[q].op = "delete_book" /\ th[q].status # 401
    /\ th[q].id \notin 1..MaxId
    /\ th[p].b \notin FieldsOf(store)

\* C10: statement-level interleaving reaches a lost update (C10_Witness), and it
\* comes about as claimed: the record of an answered POST /books goes missing next
\* to a DELETE only if the DELETE had read the table before the insert committed
\* (or the DELETE itself failed); and a DELETE's reinsertion collides only with
\* rows another request committed after the DELETE's clear, a POST's record or
\* another DELETE's reinsertion, which then are all the table holds.
C10_LostUpdateByRace ==
    /\ \A p \in Threads, q \in Threads :
          InsertLost(p, q) => (th[p].b \notin RowsRead(q) \/ th[q].status = 500)
    /\ \A q \in Threads :
          (th[q].op = "delete_book" /\ th[q].exc = "IntegrityError" /\ th[q].pc = "done")
          => \E p \in Threads \ { q } :
                \/ /\ th[p].op = "add_book" /\ th[p].pc \in { "add_push", "done" }
                   /\ store = << Row(th[p].new_id, th[p].b) >>
                \/ /\ th[p].op = "delete_book" /\ th[p].pc \in { "del_push", "done" }
                   /\ th[p].exc = ""
                   /\ store = [i \in DOMAIN th[p].rows |-> Row(i, th[p].rows[i])]

\* POST /books answered 200 and DELETE /books/{absent id} answered 200, the DELETE
\* read its rows before the insert committed, and the inserted record is gone
C10_Witness ==
    \E p \in Threads, q \in Threads :
        /\ InsertLost(p, q)
        /\ th[q].status = 200
        /\ th[p].b \notin RowsRead(q)
        /\ Len(store) = Len(th[q].rows)

\* the second shape of C10: the DELETE's reinsertion hit the id a concurrent POST
\* had taken, and the rows it had read are gone
C10_WitnessCollision ==
    \E p \in Threads, q \in Threads :
        /\ th[q].op = "delete_book" /\ th[q].exc = "IntegrityError" /\ th[q].pc = "done"
        /\ th[q].rows # << >>
        /\ th[p].op = "add_book" /\ th[p].pc = "done" /\ th[p].status = 200
        /\ store = << Row(th[p].new_id, th[p].b) >>

\* C11: from an empty store, after every completed request of a sequence of
\* non-overlapping requests the ids in the store are exactly 1..n for n records;
\* so a POST /books that succeeds assigns n + 1, and after a DELETE of the last
\* record (id n + 1 of the n that remain) the next POST assigns that id again.
C11_IdsContiguous ==
    /\ [](IdsOf(store) = 1..Len(store))
    /\ [][(last'.op = "add_book" /\ last'.status = 200)
            => /\ last'.id = Len(store) + 1
               /\ IdsOf(store') = 1..(Len(store) + 1)
               /\ (last.op = "delete_book" /\ last.status = 200
                     /\ last.id = Len(store) + 1) => last'.id = last.id]_vars

\* a POST /books answered with id MaxId on top of records 1..MaxId-1, after a
\* GET /backup wrote the CSV and with the Drive file lagging behind
C11_Witness ==
    /\ last.op = "add_book" /\ last.status = 200 /\ last.id = MaxId
    /\ IdsOf(store) = 1..MaxId
    /\ csv
    /\ remote \notin { NoFile, File(store) }

\* C12: POST /save_all is all-or-nothing on the table. A request that ends with
\* 500 (save_all failed) raised at its DELETE or in its inserts, before the one
\* conn.commit(): none of its steps changes the table or the Drive file, and from
\* its DELETE to its end the table stays what it was, so the table after the
\* request is the table before it; it never reaches upload_db_to_drive. The only
\* step of a save_all that changes the table is the commit of the clear and all
\* the inserts together.
C12_SaveAllAllOrNothing ==
    [][\A p \in Threads :
          LET old == th[p]
              new == th'[p]
          IN  /\ (new.op = "save_all" /\ new # old /\ new.status = 500)
                    => /\ old.pc \in { "sav_clear", "sav_insert", "unwind" }
                       /\ new.pc \in { "unwind", "done" }
                       /\ store' = store
                       /\ remote' = remote
              /\ (old.op = "save_all" /\ old.pc \in { "sav_insert", "unwind" })
                    => store' = store
              /\ (old.op = "save_all" /\ new # old /\ store' # store)
                    => /\ old.pc = "sav_commit"
                       /\ store' = old.txn
                       /\ new.status # 500]_vars

\* a POST /save_all with records has ended with 500 on its first item.get, after
\* its DELETE, and the table still holds records
C12_Witness ==
    \E p \in Threads :
        /\ th[p].op = "save_all" /\ th[p].pc = "done"
        /\ th[p].status = 500 /\ th[p].exc = "AttributeError"
        /\ store # << >>
        /\ lock = Free

====
